---- MODULE Spec2Model ----
(***************************************************************************)
(* State machine of src/backend.py: the project flow                       *)
(*   create project -> add source text -> build outline -> chapter drafts  *)
(* over the three Postgres tables book_projects, source_documents and      *)
(* chapters.                                                               *)
(*                                                                         *)
(* Every handler opens its own connection (get_db, psycopg default:        *)
(* one transaction per connection, READ COMMITTED).  A handler that calls  *)
(* the remote text-generation service is split at the call: its reads, the *)
(* remote reply, and its writes are separate steps, so that requests       *)
(* served by different workers interleave the way the database allows.     *)
(* Writes of a transaction become visible at its commit; a row changed by  *)
(* an open transaction is locked against other writers until then.         *)
(***************************************************************************)
EXTENDS Integers, Sequences, FiniteSets, TLC

VARIABLES
    book_projects,      \* table book_projects: set of rows
    source_documents,   \* table source_documents: set of rows
    chapters,           \* table chapters: set of committed rows
    id_seq,             \* the SERIAL sequences of the three tables
    active,             \* the workers that serve requests
    pc,                 \* per worker: where its handler stands
    loc,                \* per worker: the handler's local variables
    resp,               \* per worker: the response of its last request
    calls,              \* per worker: remote calls made by its current request
    last_build,         \* per project: the worker whose build committed last
    storage,            \* the files in UPLOAD_DIR
    budget              \* requests still to be accepted (Unlimited: no cap)

vars == <<book_projects, source_documents, chapters, id_seq, active, pc, loc,
          resp, calls, last_build, storage, budget>>

db == <<book_projects, source_documents, chapters>>

-----------------------------------------------------------------------------
(* Bounds of the model *)

MaxSources == 2        \* source documents ever stored
MaxStubs == 2          \* length of the 'chapters' list the model returns
MaxChapterIds == 3     \* values drawn from the chapters id sequence
MaxConcRequests == 4   \* requests accepted while two workers overlap

Unlimited == 0 - 1

\* MAX_SOURCE_CHARS (set from the environment, 4000 by default): a cap short
\* enough for the texts of the model to exceed it.
MAX_SOURCE_CHARS == 3

Workers == {1, 2}

\* The model follows one project: every statement of the handlers names the
\* project (or the chapter) it touches in its WHERE clause.
ProjectIds == {1}

-----------------------------------------------------------------------------
(* Values: Python / JSON / SQL values are tagged records.                  *)

NULL == [t |-> "null"]
Str(s) == [t |-> "str", v |-> s]
Num(n) == [t |-> "int", v |-> n]
List(s) == [t |-> "list", v |-> s]

\* Python truthiness: None, "", 0 and [] are false.
Truthy(x) ==
    CASE x.t = "null" -> FALSE
      [] x.t = "str"  -> x.v # <<>>
      [] x.t = "int"  -> x.v # 0
      [] x.t = "list" -> x.v # <<>>
      [] OTHER        -> TRUE

\* Python `x or d`.
OrElse(x, d) == IF Truthy(x) THEN x ELSE d

IsSpace(c) == c \in {" ", "\n"}

RECURSIVE LStrip(_)
LStrip(s) == IF s # <<>> /\ IsSpace(Head(s)) THEN LStrip(Tail(s)) ELSE s

RECURSIVE RStrip(_)
RStrip(s) ==
    IF s # <<>> /\ IsSpace(s[Len(s)]) THEN RStrip(SubSeq(s, 1, Len(s) - 1)) ELSE s

\* str.strip() on a sequence of characters.
Strip(s) == RStrip(LStrip(s))

\* (data.get(k) or "").strip()
StripOrEmpty(x) == Strip(OrElse(x, Str(<<>>)).v)

\* json.dumps(outline_data): the text stored in book_projects.outline_json.
JsonDumps(d) == [t |-> "text", json |-> d]

-----------------------------------------------------------------------------
(* Inputs *)

\* request bodies
RawTitles == {NULL, Str(<<" ">>), Str(<<" ", "T">>)}
RawTexts == {NULL, Str(<<" ">>), Str(<<"a">>), Str(<<" ", "a">>)}

\* one entry of the 'chapters' list returned by the model
Stub(o, ti, s) == [kind |-> "object", order |-> o, title |-> ti, summary |-> s]

StubPool ==
    { Stub(Num(1), Str(<<"A">>), Str(<<"s">>)),
      Stub(Num(2), Str(<<" ", "B">>), NULL),
      Stub(NULL, Str(<<"A">>), Str(<<" ">>)),
      Stub(Num(2), Str(<<" ">>), Str(<<"s">>)),
      Stub(Num(1), NULL, NULL),
      Stub(Str(<<"x">>), Str(<<"A">>), NULL),
      [kind |-> "string"] }

StubLists == UNION { [1 .. n -> StubPool] : n \in 1 .. MaxStubs }

\* what json.loads can return for the reply's content
JsonObject(chs) == [t |-> "object", chapters |-> chs]

OutlineData ==
    { [t |-> "array"] }
    \cup { JsonObject(c) : c \in {[t |-> "absent"], Str(<<"x">>), List(<<>>)} }
    \cup { JsonObject(List(l)) : l \in StubLists }

\* what client.chat.completions.create gives build-outline
OutlineReplies ==
    { [kind |-> "raise"], [kind |-> "text"] }
    \cup { [kind |-> "json", data |-> d] : d \in OutlineData }

\* what it gives the draft generators: message.content
DraftTexts == {Str(<<>>), Str(<<"x">>), Str(<<"y">>)}

DraftReplies == { [kind |-> "raise"] } \cup { [kind |-> "ok", content |-> c] : c \in DraftTexts }

-----------------------------------------------------------------------------
(* Responses *)

NoRows == <<>>

Response(op, id, code, msg, outline, rows) ==
    [op |-> op, id |-> id, code |-> code, msg |-> msg, outline |-> outline, rows |-> rows]

NoResp == Response("none", 0, 0, "", NULL, NoRows)

Error(op, id, code, msg) == Response(op, id, code, msg, NULL, NoRows)

NoLoc == [op |-> "none"]

-----------------------------------------------------------------------------
(* Queries *)

ProjectRow(p) == { r \in book_projects : r.id = p }

ProjectChapters(p) == { c \in chapters : c.project_id = p }

ChapterRow(cid) == { c \in chapters : c.id = cid }

\* the source documents of project p
SourceRows(p) == { s \in source_documents : s.project_id = p }

\* SELECT content_text FROM source_documents WHERE project_id = p ORDER BY created_at ASC:
\* the sequences the statement can return.  Rows of equal created_at come in
\* either order.
SourceOrders(p) ==
    LET rows == SourceRows(p)
        n == Cardinality(rows)
    IN  { s \in [1 .. n -> rows] :
            /\ \A i, j \in 1 .. n : i # j => s[i] # s[j]
            /\ \A i \in 1 .. n - 1 : s[i].created_at <= s[i + 1].created_at }

\* now_iso() has a resolution of one second: a call reads the second of the
\* latest stored row or a later one.
LatestCreatedAt == IF source_documents = {} THEN 0
                   ELSE CHOOSE t \in { s.created_at : s \in source_documents } :
                            \A s \in source_documents : s.created_at <= t

now_iso == IF source_documents = {} THEN {1} ELSE {LatestCreatedAt, LatestCreatedAt + 1}

\* "\n\n".join(texts)
RECURSIVE Join(_)
Join(texts) ==
    IF texts = <<>> THEN <<>>
    ELSE IF Len(texts) = 1 THEN texts[1]
    ELSE texts[1] \o <<"\n", "\n">> \o Join(Tail(texts))

\* s[:n]
Take(s, n) == SubSeq(s, 1, IF Len(s) < n THEN Len(s) ELSE n)

ContentTexts(source_rows) == [i \in DOMAIN source_rows |-> source_rows[i].content_text]

\* build-outline and generate-chapters: join, strip, cut
LimitedText(source_rows) == Take(Strip(Join(ContentTexts(source_rows))), MAX_SOURCE_CHARS)

\* generate-draft: join the non-empty texts, cut
LimitedTextOfNonEmpty(source_rows) ==
    Take(Join(SelectSeq(ContentTexts(source_rows), LAMBDA t : t # <<>>)), MAX_SOURCE_CHARS)

-----------------------------------------------------------------------------
(* Locks: rows deleted by a build-outline transaction that has not yet     *)
(* committed are locked against the writes of other transactions.          *)

LockedBy(w) == IF pc[w] = "bo_insert" THEN loc[w].dels ELSE {}

LockedByOther(w, ids) == \E v \in active \ {w} : LockedBy(v) \cap ids # {}

-----------------------------------------------------------------------------
(* Steps shared by the handlers *)

Begin(w) ==
    /\ w \in active
    /\ pc[w] = "idle"
    /\ budget # 0
    /\ budget' = IF budget = Unlimited THEN Unlimited ELSE budget - 1
    /\ calls' = [calls EXCEPT ![w] = 0]

Reply(w, r) ==
    /\ pc' = [pc EXCEPT ![w] = "idle"]
    /\ loc' = [loc EXCEPT ![w] = NoLoc]
    /\ resp' = [resp EXCEPT ![w] = r]

Goto(w, label, locals) ==
    /\ pc' = [pc EXCEPT ![w] = label]
    /\ loc' = [loc EXCEPT ![w] = locals]
    /\ resp' = [resp EXCEPT ![w] = NoResp]

RemoteCall(w) == calls' = [calls EXCEPT ![w] = calls[w] + 1]

-----------------------------------------------------------------------------
(* POST /api/upload and POST /api/transcribe *)

\* request.files of an upload: no "file" part, one without a name, a named one
Uploads == { [t |-> "absent"], [t |-> "file", filename |-> ""], [t |-> "file", filename |-> "f"] }

\* the "path" of a transcription request, as its components
Paths == { NULL, Str(<<"storage", "f">>), Str(<<".", "storage", "f">>), Str(<<"storage", "g">>) }

TranscribeReplies == { [kind |-> "raise"], [kind |-> "ok", text |-> Str(<<"t">>)] }

\* os.path.relpath(save_path, BASE_DIR)
RelPath(filename) == <<"storage", filename>>

\* if path.startswith("./"): path = path[2:]
WithoutDot(path) == IF path # <<>> /\ Head(path) = "." THEN Tail(path) ELSE path

\* os.path.exists(os.path.join(BASE_DIR, path))
Exists(path) == \E f \in storage : path = RelPath(f)

upload_file(w, f) ==
    /\ Begin(w)
    /\ IF f.t = "absent"
       THEN /\ Reply(w, Error("upload_file", 0, 400, "No file uploaded"))
            /\ UNCHANGED storage
       ELSE IF f.filename = ""
       THEN /\ Reply(w, Error("upload_file", 0, 400, "Empty filename"))
            /\ UNCHANGED storage
       ELSE /\ storage' = storage \cup {f.filename}
            /\ Reply(w, Response("upload_file", 0, 200, "success", NULL, <<RelPath(f.filename)>>))
    /\ UNCHANGED <<db, id_seq, active, last_build>>

transcribe_audio_start(w, data) ==
    /\ Begin(w)
    /\ IF ~Truthy(data.path)
       THEN Reply(w, Error("transcribe_audio", 0, 400, "Missing 'path' in body"))
       ELSE IF ~Exists(WithoutDot(data.path.v))
       THEN Reply(w, Error("transcribe_audio", 0, 400, "File not found"))
       ELSE Goto(w, "tr_remote", [op |-> "transcribe_audio", path |-> WithoutDot(data.path.v)])
    /\ UNCHANGED <<db, id_seq, active, last_build, storage>>

\* client.audio.transcriptions.create(...) returns or raises
transcribe_audio_remote(w, replies) ==
    /\ w \in active
    /\ pc[w] = "tr_remote"
    /\ RemoteCall(w)
    /\ \E r \in replies :
          IF r.kind = "raise"
          THEN Reply(w, Error("transcribe_audio", 0, 500, "error"))
          ELSE Reply(w, Response("transcribe_audio", 0, 200, "success", NULL, <<r.text>>))
    /\ UNCHANGED <<db, id_seq, active, last_build, storage, budget>>

-----------------------------------------------------------------------------
(* POST /api/projects *)

create_project(w, data) ==
    /\ Begin(w)
    /\ LET title == StripOrEmpty(data.title)
       IN  IF title = <<>>
           THEN /\ Reply(w, Error("create_project", 0, 400, "title is required"))
                /\ UNCHANGED <<db, id_seq, active, last_build, storage>>
           ELSE /\ id_seq.book_projects + 1 \in ProjectIds
                /\ LET id == id_seq.book_projects + 1
                       row == [id |-> id, title |-> title, outline_json |-> NULL]
                   IN  /\ book_projects' = book_projects \cup {row}
                       /\ id_seq' = [id_seq EXCEPT !.book_projects = id]
                       /\ Reply(w, Response("create_project", id, 201, "success", NULL, <<row>>))
                /\ UNCHANGED <<source_documents, chapters, active, last_build, storage>>

-----------------------------------------------------------------------------
(* POST /api/projects/<project_id>/add-text *)

\* Faulty variant: the project is not looked up.
add_text_source_NoProjectCheck(w, p, data, now) ==
    /\ Begin(w)
    /\ LET text == StripOrEmpty(data.text)
       IN  IF text = <<>>
           THEN /\ Reply(w, Error("add_text_source", p, 400, "text is required"))
                /\ UNCHANGED <<db, id_seq, active, last_build, storage>>
           ELSE /\ id_seq.source_documents < MaxSources
                /\ LET id == id_seq.source_documents + 1
                       row == [id |-> id, project_id |-> p, content_text |-> text,
                               created_at |-> now]
                   IN  /\ source_documents' = source_documents \cup {row}
                       /\ id_seq' = [id_seq EXCEPT !.source_documents = id]
                       /\ Reply(w, Response("add_text_source", p, 201, "success", NULL, <<row>>))
                /\ UNCHANGED <<book_projects, chapters, active, last_build, storage>>

add_text_source(w, p, data, now) ==
    /\ Begin(w)
    /\ LET text == StripOrEmpty(data.text)
       IN  IF text = <<>>
           THEN /\ Reply(w, Error("add_text_source", p, 400, "text is required"))
                /\ UNCHANGED <<db, id_seq, active, last_build, storage>>
           ELSE IF ProjectRow(p) = {}
           THEN /\ Reply(w, Error("add_text_source", p, 404, "Project not found"))
                /\ UNCHANGED <<db, id_seq, active, last_build, storage>>
           ELSE /\ id_seq.source_documents < MaxSources
                /\ LET id == id_seq.source_documents + 1
                       row == [id |-> id, project_id |-> p, content_text |-> text,
                               created_at |-> now]
                   IN  /\ source_documents' = source_documents \cup {row}
                       /\ id_seq' = [id_seq EXCEPT !.source_documents = id]
                       /\ Reply(w, Response("add_text_source", p, 201, "success", NULL, <<row>>))
                /\ UNCHANGED <<book_projects, chapters, active, last_build, storage>>

-----------------------------------------------------------------------------
(* POST /api/projects/<project_id>/build-outline *)

\* json.loads(outline_json_str) or outline_data.get raises: the call raised,
\* the content is not JSON, or the JSON value is not an object.
ReplyRaises(r) == r.kind # "json" \/ r.data.t # "object"

\* outline_data.get("chapters") or []
ChaptersOf(d) == OrElse(IF d.chapters.t = "absent" THEN NULL ELSE d.chapters, List(<<>>))

\* Faulty variant: the check forgets `or not chapters`.
ValidChaptersList_AnyList(chs) == chs.t = "list"

\* not (not isinstance(chapters, list) or not chapters)
ValidChaptersList(chs) == chs.t = "list" /\ chs.v # <<>>

\* ch.get on a non-object, or int() of a value that is no integer, raises.
StubRaises(ch) == ch.kind # "object" \/ OrElse(ch.order, Num(0)).t # "int"

\* int(ch.get("order") or 0)
StubOrder(ch) == OrElse(ch.order, Num(0)).v

\* (ch.get("title") or "").strip()
StubTitle(ch) == StripOrEmpty(ch.title)

\* (ch.get("summary") or "").strip() or None
StubSummary(ch) == LET s == StripOrEmpty(ch.summary) IN IF s = <<>> THEN NULL ELSE Str(s)

\* the stub is skipped by `if not title: continue`
StubDropped(ch) == StubTitle(ch) = <<>>

ChapterOfStub(ch, p, id) ==
    [id |-> id, project_id |-> p, chapter_order |-> StubOrder(ch),
     title |-> StubTitle(ch), summary |-> StubSummary(ch), draft_text |-> NULL]

\* The loop `for ch in chapters`: the rows inserted so far, the value of the
\* id sequence, and whether the loop ran to its end or raised.
RECURSIVE InsertStubs(_, _, _, _)
InsertStubs(stubs, p, seq, saved) ==
    IF stubs = <<>> THEN [ok |-> TRUE, saved |-> saved, seq |-> seq]
    ELSE LET ch == Head(stubs)
         IN  IF StubRaises(ch) THEN [ok |-> FALSE, saved |-> saved, seq |-> seq]
             ELSE IF StubDropped(ch) THEN InsertStubs(Tail(stubs), p, seq, saved)
             ELSE InsertStubs(Tail(stubs), p, seq + 1,
                              Append(saved, ChapterOfStub(ch, p, seq + 1)))

\* sorted(saved_chapters, key=lambda c: c["chapter_order"]): a stable sort.
RECURSIVE InsertByOrder(_, _)
InsertByOrder(sorted, row) ==
    IF sorted = <<>> THEN <<row>>
    ELSE IF sorted[Len(sorted)].chapter_order <= row.chapter_order
         THEN Append(sorted, row)
         ELSE Append(InsertByOrder(SubSeq(sorted, 1, Len(sorted) - 1), row),
                     sorted[Len(sorted)])

RECURSIVE SortByOrder(_)
SortByOrder(rows) ==
    IF rows = <<>> THEN <<>>
    ELSE InsertByOrder(SortByOrder(SubSeq(rows, 1, Len(rows) - 1)), rows[Len(rows)])

Range(s) == { s[i] : i \in DOMAIN s }

\* Faulty variant: no check of the source rows before the remote call.
build_outline_start_NoSourceCheck(w, p) ==
    /\ Begin(w)
    /\ IF ProjectRow(p) = {}
       THEN Reply(w, Error("build_outline", p, 404, "Project not found"))
       ELSE \E source_rows \in SourceOrders(p) :
               Goto(w, "bo_remote", [op |-> "build_outline", project_id |-> p,
                                     limited_text |-> LimitedText(source_rows)])
    /\ UNCHANGED <<db, id_seq, active, last_build, storage>>

build_outline_start(w, p) ==
    /\ Begin(w)
    /\ IF ProjectRow(p) = {}
       THEN Reply(w, Error("build_outline", p, 404, "Project not found"))
       ELSE IF SourceRows(p) = {}
       THEN Reply(w, Error("build_outline", p, 400, "No source documents found for project"))
       ELSE \E source_rows \in SourceOrders(p) :
               Goto(w, "bo_remote", [op |-> "build_outline", project_id |-> p,
                                     limited_text |-> LimitedText(source_rows)])
    /\ UNCHANGED <<db, id_seq, active, last_build, storage>>

\* The DELETE statement: it sees the rows committed when it starts; where one
\* of them is locked by another open transaction it waits for that one to end.
build_outline_delete(w, p, data) ==
    LET snap == { c.id : c \in ProjectChapters(p) }
    IN  IF LockedByOther(w, snap)
        THEN Goto(w, "bo_delete_wait",
                  [op |-> "build_outline", project_id |-> p, outline_data |-> data,
                   snap |-> snap])
        ELSE Goto(w, "bo_insert",
                  [op |-> "build_outline", project_id |-> p, outline_data |-> data,
                   dels |-> snap])

\* The reply of client.chat.completions.create arrives and is validated.
build_outline_reply(w, r) ==
    LET p == loc[w].project_id
    IN  IF ReplyRaises(r)
        THEN Reply(w, Error("build_outline", p, 500, "build-outline failed: reply"))
        ELSE IF ~ValidChaptersList(ChaptersOf(r.data))
        THEN Reply(w, Error("build_outline", p, 500, "Model did not return a valid 'chapters' list in JSON."))
        ELSE /\ id_seq.chapters + Len(ChaptersOf(r.data).v) <= MaxChapterIds
             /\ build_outline_delete(w, p, r.data)

build_outline_remote(w, replies) ==
    /\ w \in active
    /\ pc[w] = "bo_remote"
    /\ RemoteCall(w)
    /\ \E r \in replies : build_outline_reply(w, r)
    /\ UNCHANGED <<db, id_seq, active, last_build, storage, budget>>

\* The waiting DELETE goes on once the locking transaction has ended: rows
\* that transaction deleted are skipped, rows it inserted are not seen.
build_outline_delete_resume(w) ==
    /\ w \in active
    /\ pc[w] = "bo_delete_wait"
    /\ ~LockedByOther(w, loc[w].snap)
    /\ Goto(w, "bo_insert",
            [op |-> "build_outline", project_id |-> loc[w].project_id,
             outline_data |-> loc[w].outline_data,
             dels |-> { id \in loc[w].snap : ChapterRow(id) # {} }])
    /\ UNCHANGED <<db, id_seq, active, last_build, storage, calls, budget>>

\* Faulty variant: the outline is not stored on the project.
build_outline_commit_NoOutline(w, p, data, dels, saved) ==
    /\ chapters' = { c \in chapters : c.id \notin dels } \cup Range(saved)
    /\ UNCHANGED book_projects
    /\ last_build' = [last_build EXCEPT ![p] = w]
    /\ Reply(w, Response("build_outline", p, 200, "success", data, SortByOrder(saved)))

\* Faulty variant: the DELETE is left out.
build_outline_commit_NoDelete(w, p, data, dels, saved) ==
    /\ chapters' = chapters \cup Range(saved)
    /\ book_projects' =
          { IF r.id = p THEN [r EXCEPT !.outline_json = JsonDumps(data)] ELSE r :
            r \in book_projects }
    /\ last_build' = [last_build EXCEPT ![p] = w]
    /\ Reply(w, Response("build_outline", p, 200, "success", data, SortByOrder(saved)))

\* conn.commit(): the DELETE, the INSERTs and the UPDATE take effect together.
build_outline_commit(w, p, data, dels, saved) ==
    /\ chapters' = { c \in chapters : c.id \notin dels } \cup Range(saved)
    /\ book_projects' =
          { IF r.id = p THEN [r EXCEPT !.outline_json = JsonDumps(data)] ELSE r :
            r \in book_projects }
    /\ last_build' = [last_build EXCEPT ![p] = w]
    /\ Reply(w, Response("build_outline", p, 200, "success", data, SortByOrder(saved)))

\* Faulty variant: the DELETE and the INSERTs before the failure are kept.
build_outline_rollback_KeepsWrites(w, p) ==
    /\ chapters' = { c \in chapters : c.id \notin loc[w].dels }
                     \cup Range(InsertStubs(ChaptersOf(loc[w].outline_data).v, p,
                                            id_seq.chapters, <<>>).saved)
    /\ UNCHANGED <<book_projects, last_build>>
    /\ Reply(w, Error("build_outline", p, 500, "build-outline failed: stub"))

\* except Exception: conn.rollback(); the message carries the exception, here
\* the one raised in the loop over the stubs
build_outline_rollback(w, p) ==
    /\ UNCHANGED <<chapters, book_projects, last_build>>
    /\ Reply(w, Error("build_outline", p, 500, "build-outline failed: stub"))

\* The INSERT loop, the UPDATE of the project and the commit.
build_outline_finish(w) ==
    /\ w \in active
    /\ pc[w] = "bo_insert"
    /\ LET p == loc[w].project_id
           data == loc[w].outline_data
           res == InsertStubs(ChaptersOf(data).v, p, id_seq.chapters, <<>>)
       IN  /\ id_seq' = [id_seq EXCEPT !.chapters = res.seq]
           /\ IF res.ok
              THEN build_outline_commit(w, p, data, loc[w].dels, res.saved)
              ELSE build_outline_rollback(w, p)
    /\ UNCHANGED <<source_documents, active, storage, calls, budget>>

-----------------------------------------------------------------------------
(* Draft generation *)

\* Faulty variant: ... WHERE id = %s AND draft_text IS NULL
UpdateDraft_IfAbsent(cid, text) ==
    { IF c.id = cid /\ c.draft_text = NULL THEN [c EXCEPT !.draft_text = text] ELSE c :
      c \in chapters }

\* UPDATE chapters SET draft_text = %s WHERE id = %s
UpdateDraft(cid, text) ==
    { IF c.id = cid THEN [c EXCEPT !.draft_text = text] ELSE c : c \in chapters }

\* Faulty variant: `c.get("draft_text") is None`.
Pending_IsNone(c) == c.draft_text = NULL

\* Faulty variant: the filter on draft_text is left out.
Pending_Always(c) == TRUE

\* `not c.get("draft_text")`
Pending(c) == ~Truthy(c.draft_text)

\* next((c for c in chapters if not c.get("draft_text")), None) over the rows
\* ORDER BY chapter_order ASC: the rows that can come first among the pending
\* ones (rows of equal chapter_order come in either order).
NextPending(rows) ==
    { c \in rows : Pending(c) /\ \A d \in rows : Pending(d) => c.chapter_order <= d.chapter_order }

(* POST /api/chapters/<chapter_id>/generate-draft *)

generate_chapter_draft_start(w, cid) ==
    /\ Begin(w)
    /\ IF ChapterRow(cid) = {}
       THEN Reply(w, Error("generate_chapter_draft", cid, 404, "Chapter not found"))
       ELSE \E c \in ChapterRow(cid) : \E source_rows \in SourceOrders(c.project_id) :
               Goto(w, "cd_remote", [op |-> "generate_chapter_draft", chapter_id |-> cid,
                                     limited_text |-> LimitedTextOfNonEmpty(source_rows)])
    /\ UNCHANGED <<db, id_seq, active, last_build, storage>>

generate_chapter_draft_reply(w, r) ==
    LET cid == loc[w].chapter_id
    IN  IF r.kind = "raise"
        THEN /\ UNCHANGED chapters
             /\ Reply(w, Error("generate_chapter_draft", cid, 500, "Failed to generate chapter draft"))
        ELSE /\ ~LockedByOther(w, {cid})
             /\ chapters' = UpdateDraft(cid, r.content)
             /\ Reply(w, Response("generate_chapter_draft", cid, 200, "success", NULL, NoRows))

generate_chapter_draft_remote(w, replies) ==
    /\ w \in active
    /\ pc[w] = "cd_remote"
    /\ RemoteCall(w)
    /\ \E r \in replies : generate_chapter_draft_reply(w, r)
    /\ UNCHANGED <<book_projects, source_documents, id_seq, active, last_build, storage, budget>>

(* POST /api/projects/<project_id>/generate-chapters *)

generate_chapters_select(w, p) ==
    IF NextPending(ProjectChapters(p)) = {}
    THEN Reply(w, Response("generate_chapters", p, 200, "All chapters already have drafts.", NULL, NoRows))
    ELSE \E target \in NextPending(ProjectChapters(p)) : \E source_rows \in SourceOrders(p) :
            Goto(w, "gn_remote",
                 [op |-> "generate_chapters", project_id |-> p, target_chapter |-> target,
                  limited_text |-> LimitedText(source_rows)])

\* Faulty variant: no check that the project has chapters.
generate_chapters_start_NoChaptersCheck(w, p) ==
    /\ Begin(w)
    /\ IF ProjectRow(p) = {}
       THEN Reply(w, Error("generate_chapters", p, 404, "Project not found"))
       ELSE IF SourceRows(p) = {}
       THEN Reply(w, Error("generate_chapters", p, 400, "No source documents found for project"))
       ELSE generate_chapters_select(w, p)
    /\ UNCHANGED <<db, id_seq, active, last_build, storage>>

generate_chapters_start(w, p) ==
    /\ Begin(w)
    /\ IF ProjectRow(p) = {}
       THEN Reply(w, Error("generate_chapters", p, 404, "Project not found"))
       ELSE IF SourceRows(p) = {}
       THEN Reply(w, Error("generate_chapters", p, 400, "No source documents found for project"))
       ELSE IF ProjectChapters(p) = {}
       THEN Reply(w, Error("generate_chapters", p, 400, "No chapters found for project"))
       ELSE generate_chapters_select(w, p)
    /\ UNCHANGED <<db, id_seq, active, last_build, storage>>

\* cur.execute("SELECT * FROM chapters WHERE id = %s"); row_to_dict(cur.fetchone())
RowOrNone(rows) == IF rows = {} THEN NULL ELSE CHOOSE c \in rows : TRUE

\* Faulty variant: a failed call stores an error text as the draft and reports success.
generate_chapters_reply_ErrorText(w, r) ==
    LET p == loc[w].project_id
        cid == loc[w].target_chapter.id
        text == IF r.kind = "raise" THEN Str(<<"E">>) ELSE r.content
    IN  /\ ~LockedByOther(w, {cid})
        /\ chapters' = UpdateDraft(cid, text)
        /\ Reply(w, Response("generate_chapters", p, 200, "success", NULL,
                             <<RowOrNone({ c \in UpdateDraft(cid, text) : c.id = cid })>>))

generate_chapters_reply(w, r) ==
    LET p == loc[w].project_id
        cid == loc[w].target_chapter.id
    IN  IF r.kind = "raise"
        THEN /\ UNCHANGED chapters
             /\ Reply(w, Error("generate_chapters", p, 500, "generate-chapters failed"))
        ELSE /\ ~LockedByOther(w, {cid})
             /\ chapters' = UpdateDraft(cid, r.content)
             /\ Reply(w, Response("generate_chapters", p, 200, "success", NULL,
                                  <<RowOrNone({ c \in UpdateDraft(cid, r.content) : c.id = cid })>>))

generate_chapters_remote(w, replies) ==
    /\ w \in active
    /\ pc[w] = "gn_remote"
    /\ RemoteCall(w)
    /\ \E r \in replies : generate_chapters_reply(w, r)
    /\ UNCHANGED <<book_projects, source_documents, id_seq, active, last_build, storage, budget>>

-----------------------------------------------------------------------------
(* src/app: POST /api/generate-outline and POST /api/generate-chapter, which *)
(* call GPTService.chat                                                      *)

PRIMARY_MODEL == "gpt-5.1"

FALLBACK_MODELS == <<"gpt-4.1", "gpt-4.1-mini">>

\* request bodies: none, one without the required fields, a complete one
RouteBodies == { NULL, [t |-> "object", complete |-> FALSE], [t |-> "object", complete |-> TRUE] }

\* what one call of client.chat.completions.create gives _execute: it raises,
\* or returns a response whose content and usage can be read or not
Unreadable == [t |-> "unreadable"]

ChatReplies ==
    { [kind |-> "raise"] }
    \cup { [kind |-> "ok", content |-> c, usage |-> u] :
              c \in {Str(<<"x">>), Unreadable}, u \in {Num(1), Unreadable} }

\* try: response.<field> except Exception: None
ReadOrNone(x) == IF x = Unreadable THEN NULL ELSE x

RouteResponse(op, code, content, model_used, usage) ==
    [op |-> op, id |-> 0, code |-> code, content |-> content, model_used |-> model_used,
     usage |-> usage]

\* the routes: the body is validated, then gpt_service.chat(...) is called
generate_route(w, op, data) ==
    /\ Begin(w)
    /\ IF ~Truthy(data) \/ ~data.complete
       THEN Reply(w, RouteResponse(op, 400, NULL, "", NULL))
       ELSE Goto(w, "chat", [op |-> op, models_to_try |-> <<PRIMARY_MODEL>> \o FALLBACK_MODELS])
    /\ UNCHANGED <<db, id_seq, active, last_build, storage>>

generate_outline_route(w, data) == generate_route(w, "generate_outline_route", data)

generate_chapter_route(w, data) == generate_route(w, "generate_chapter_route", data)

\* Faulty variant: a response whose content cannot be read counts as a failed
\* call, and the next model is tried.
chat_SkipsUnreadable(w, replies) ==
    /\ w \in active
    /\ pc[w] = "chat"
    /\ RemoteCall(w)
    /\ LET model == Head(loc[w].models_to_try)
           rest == Tail(loc[w].models_to_try)
       IN  \E r \in replies :
              IF r.kind = "raise" \/ r.content = Unreadable
              THEN IF rest = <<>>
                   THEN Reply(w, RouteResponse(loc[w].op, 500, NULL, "", NULL))
                   ELSE Goto(w, "chat", [loc[w] EXCEPT !.models_to_try = rest])
              ELSE Reply(w, RouteResponse(loc[w].op, 200, ReadOrNone(r.content), model,
                                          ReadOrNone(r.usage)))
    /\ UNCHANGED <<db, id_seq, active, last_build, storage, budget>>

\* GPTService.chat: one turn of `for model in models_to_try`.  _execute makes
\* the remote call and returns None when it raises; the first response that
\* is returned ends the loop; after the last model RuntimeError is raised,
\* which the route does not catch (500).
chat(w, replies) ==
    /\ w \in active
    /\ pc[w] = "chat"
    /\ RemoteCall(w)
    /\ LET model == Head(loc[w].models_to_try)
           rest == Tail(loc[w].models_to_try)
       IN  \E r \in replies :
              IF r.kind = "raise"
              THEN IF rest = <<>>
                   THEN Reply(w, RouteResponse(loc[w].op, 500, NULL, "", NULL))
                   ELSE Goto(w, "chat", [loc[w] EXCEPT !.models_to_try = rest])
              ELSE Reply(w, RouteResponse(loc[w].op, 200, ReadOrNone(r.content), model,
                                          ReadOrNone(r.usage)))
    /\ UNCHANGED <<db, id_seq, active, last_build, storage, budget>>

-----------------------------------------------------------------------------
(* Specifications *)

\* ids a request can name: those of the model's projects and of the stored
\* chapters, and one that names no row
RequestProjectIds == ProjectIds \cup {2}
RequestChapterIds == { c.id : c \in chapters } \cup {0}

\* init_db() on an empty database; no request is being served.
InitTables ==
    /\ book_projects = {}
    /\ source_documents = {}
    /\ chapters = {}
    /\ id_seq = [book_projects |-> 0, source_documents |-> 0, chapters |-> 0]
    /\ pc = [w \in Workers |-> "idle"]
    /\ loc = [w \in Workers |-> NoLoc]
    /\ resp = [w \in Workers |-> NoResp]
    /\ calls = [w \in Workers |-> 0]
    /\ last_build = [p \in ProjectIds |-> 0]
    /\ storage = {}

Request(w) ==
    \/ \E ti \in RawTitles : create_project(w, [title |-> ti])
    \/ \E p \in RequestProjectIds, tx \in RawTexts, now \in now_iso :
          add_text_source(w, p, [text |-> tx], now)
    \/ \E p \in RequestProjectIds : build_outline_start(w, p)
    \/ build_outline_remote(w, OutlineReplies)
    \/ build_outline_finish(w)
    \/ \E cid \in RequestChapterIds : generate_chapter_draft_start(w, cid)
    \/ generate_chapter_draft_remote(w, DraftReplies)
    \/ \E p \in RequestProjectIds : generate_chapters_start(w, p)
    \/ generate_chapters_remote(w, DraftReplies)

\* One worker: requests are served one after the other.
Init == InitTables /\ active = {1} /\ budget = Unlimited

Next == \E w \in Workers : Request(w)

Spec == Init /\ [][Next]_vars

\* Two workers serve overlapping requests on a project that has a source
\* document: the state after create_project and add_text_source.
ConcStubLists ==
    UNION { [1 .. n -> { Stub(Num(1), Str(<<"A">>), Str(<<"s">>)),
                         Stub(Num(2), Str(<<" ", "B">>), NULL) }] : n \in 1 .. MaxStubs }

ConcOutlineReplies ==
    { [kind |-> "raise"] }
    \cup { [kind |-> "json", data |-> JsonObject(List(l))] : l \in ConcStubLists }

ConcDraftReplies ==
    { [kind |-> "raise"] } \cup { [kind |-> "ok", content |-> c] : c \in DraftTexts }

InitConc ==
    /\ book_projects = { [id |-> 1, title |-> <<"T">>, outline_json |-> NULL] }
    /\ source_documents = { [id |-> 1, project_id |-> 1, content_text |-> <<"a">>,
                              created_at |-> 1] }
    /\ chapters = {}
    /\ id_seq = [book_projects |-> 1, source_documents |-> 1, chapters |-> 0]
    /\ pc = [w \in Workers |-> "idle"]
    /\ loc = [w \in Workers |-> NoLoc]
    /\ resp = [w \in Workers |-> NoResp]
    /\ calls = [w \in Workers |-> 0]
    /\ last_build = [p \in ProjectIds |-> 0]
    /\ storage = {}
    /\ active = Workers
    /\ budget = MaxConcRequests

RequestConc(w) ==
    \/ \E p \in RequestProjectIds : build_outline_start(w, p)
    \/ build_outline_remote(w, ConcOutlineReplies)
    \/ build_outline_delete_resume(w)
    \/ build_outline_finish(w)
    \/ \E cid \in RequestChapterIds : generate_chapter_draft_start(w, cid)
    \/ generate_chapter_draft_remote(w, ConcDraftReplies)
    \/ \E p \in RequestProjectIds : generate_chapters_start(w, p)
    \/ generate_chapters_remote(w, ConcDraftReplies)

NextConc == \E w \in Workers : RequestConc(w)

SpecConc == InitConc /\ [][NextConc]_vars

\* The file storage: uploads and transcriptions, and requests that name
\* projects and chapters, served by two workers on an empty database.
RequestFiles(w) ==
    \/ \E f \in Uploads : upload_file(w, f)
    \/ \E pa \in Paths : transcribe_audio_start(w, [path |-> pa])
    \/ transcribe_audio_remote(w, TranscribeReplies)
    \/ \E p \in RequestProjectIds : build_outline_start(w, p)
    \/ \E cid \in RequestChapterIds : generate_chapter_draft_start(w, cid)
    \/ \E p \in RequestProjectIds : generate_chapters_start(w, p)

InitFiles == InitTables /\ active = Workers /\ budget = Unlimited

NextFiles == \E w \in Workers : RequestFiles(w)

SpecFiles == InitFiles /\ [][NextFiles]_vars

\* The application of src/app: two workers serve the routes that call
\* GPTService.chat.
RequestApp(w) ==
    \/ \E data \in RouteBodies : generate_outline_route(w, data)
    \/ \E data \in RouteBodies : generate_chapter_route(w, data)
    \/ chat(w, ChatReplies)

InitApp == InitTables /\ active = Workers /\ budget = Unlimited

NextApp == \E w \in Workers : RequestApp(w)

SpecApp == InitApp /\ [][NextApp]_vars

\* Source documents of different texts, added in the same second or in
\* different ones, and the calls that read them: one worker, a project that
\* exists (the state after create_project).
SourceTexts == RawTexts \cup {Str(<<"b">>), Str(<<"b", "b", "b">>)}

RequestSources(w) ==
    \/ \E p \in RequestProjectIds, tx \in SourceTexts, now \in now_iso :
          add_text_source(w, p, [text |-> tx], now)
    \/ \E p \in RequestProjectIds : build_outline_start(w, p)
    \/ build_outline_remote(w, ConcOutlineReplies)
    \/ build_outline_finish(w)
    \/ \E cid \in RequestChapterIds : generate_chapter_draft_start(w, cid)
    \/ generate_chapter_draft_remote(w, ConcDraftReplies)
    \/ \E p \in RequestProjectIds : generate_chapters_start(w, p)
    \/ generate_chapters_remote(w, ConcDraftReplies)

InitSources ==
    /\ book_projects = { [id |-> 1, title |-> <<"T">>, outline_json |-> NULL] }
    /\ source_documents = {}
    /\ chapters = {}
    /\ id_seq = [book_projects |-> 1, source_documents |-> 0, chapters |-> 0]
    /\ pc = [w \in Workers |-> "idle"]
    /\ loc = [w \in Workers |-> NoLoc]
    /\ resp = [w \in Workers |-> NoResp]
    /\ calls = [w \in Workers |-> 0]
    /\ last_build = [p \in ProjectIds |-> 0]
    /\ storage = {}
    /\ active = {1}
    /\ budget = Unlimited

NextSources == \E w \in Workers : RequestSources(w)

SpecSources == InitSources /\ [][NextSources]_vars

\* A client that keeps invoking next-pending draft generation on a project
\* whose outline has just been built (all chapters undrafted), with no build
\* running; every remote call that is made eventually succeeds.
InitDrafting ==
    \E l \in ConcStubLists :
        /\ book_projects = { [id |-> 1, title |-> <<"T">>,
                               outline_json |-> JsonDumps(JsonObject(List(l)))] }
        /\ source_documents = { [id |-> 1, project_id |-> 1, content_text |-> <<"a">>,
                                  created_at |-> 1] }
        /\ chapters = Range(InsertStubs(l, 1, 0, <<>>).saved)
        /\ id_seq = [book_projects |-> 1, source_documents |-> 1, chapters |-> Len(l)]
        /\ pc = [w \in Workers |-> "idle"]
        /\ loc = [w \in Workers |-> NoLoc]
        /\ resp = [w \in Workers |-> NoResp]
        /\ calls = [w \in Workers |-> 0]
        /\ last_build = [p \in ProjectIds |-> 1]
        /\ storage = {}
        /\ active = {1}
        /\ budget = Unlimited

SuccessReplies == { r \in DraftReplies : r.kind = "ok" }

RequestDrafting(w) ==
    \/ \E p \in RequestProjectIds : generate_chapters_start(w, p)
    \/ generate_chapters_remote(w, DraftReplies)

NextDrafting == \E w \in Workers : RequestDrafting(w)

SpecDrafting ==
    /\ InitDrafting
    /\ [][NextDrafting]_vars
    /\ \A p \in ProjectIds : WF_vars(generate_chapters_start(1, p))
    /\ SF_vars(generate_chapters_remote(1, SuccessReplies))

-----------------------------------------------------------------------------
(* Properties *)

\* a draft field that is absent or empty
Absent(x) == x = NULL \/ x = Str(<<>>)

\* the reply is no JSON object with a non-empty list under 'chapters'
InvalidOutlineReply(r) ==
    \/ r.kind \in {"raise", "text"}
    \/ r.data.t # "object"
    \/ r.data.chapters.t # "list"
    \/ Len(r.data.chapters.v) = 0

\* the stub has no title, or one that is blank after trimming
TitleMissingOrBlank(ch) ==
    /\ ch.kind = "object"
    /\ \/ ch.title = NULL
       \/ ch.title.t = "str" /\ \A i \in DOMAIN ch.title.v : ch.title.v[i] = " "

\* C1: a build-outline call whose remote call raises, returns text that is
\* not JSON, or returns JSON without a non-empty list under 'chapters' is
\* answered with an error, and leaves the chapters and the projects (with
\* their stored outlines) exactly as they were.
C1_FailedBuildChangesNothing ==
    [][\A w \in Workers : \A r \in OutlineReplies :
         (pc[w] = "bo_remote" /\ InvalidOutlineReply(r) /\ build_outline_reply(w, r))
         => /\ resp'[w].op = "build_outline"
            /\ resp'[w].code = 500
            /\ chapters' = chapters
            /\ book_projects' = book_projects]_vars

\* C1 witness: a build-outline call was refused for its reply's shape on a
\* project that keeps a drafted chapter and its stored outline.
C1_Witness ==
    \E w \in Workers :
        /\ resp[w].op = "build_outline"
        /\ resp[w].msg = "Model did not return a valid 'chapters' list in JSON."
        /\ \E c \in ProjectChapters(resp[w].id) : ~Absent(c.draft_text)
        /\ \E r \in ProjectRow(resp[w].id) : r.outline_json # NULL

\* C2: when every stub of the reply has a missing or blank title, the
\* build-outline call fails, deletes no chapter and stores no outline.
C2_AllStubsDroppedFails ==
    [][\A w \in Workers :
         (/\ pc[w] = "bo_insert"
          /\ pc'[w] = "idle"
          /\ \A i \in DOMAIN loc[w].outline_data.chapters.v :
                TitleMissingOrBlank(loc[w].outline_data.chapters.v[i]))
         => /\ resp'[w].code # 200
            /\ chapters' = chapters
            /\ book_projects' = book_projects]_vars

C4_NoSourcesNoBuild ==
    \A w \in Workers :
        /\ (resp[w].op = "build_outline" /\ SourceRows(resp[w].id) = {})
           => /\ resp[w].code \in {400, 404}
              /\ (ProjectRow(resp[w].id) # {} => resp[w].code = 400)
              /\ calls[w] = 0
              /\ ProjectChapters(resp[w].id) = {}
        /\ (pc[w] \in {"bo_remote", "bo_delete_wait", "bo_insert"})
           => SourceRows(loc[w].project_id) # {}

\* C4 witness: the refusal on an existing project without source documents.
C4_Witness ==
    \E w \in Workers :
        /\ resp[w] = Error("build_outline", resp[w].id, 400, "No source documents found for project")
        /\ ProjectRow(resp[w].id) # {}
        /\ calls[w] = 0

\* C5: when the remote call of a draft generation raises, the call is
\* answered with an error and the chapters are exactly as before; and a
\* draft field only ever holds a text the remote service returned.
C5_FailedDraftChangesNothing ==
    [][/\ \A w \in Workers :
            (\/ pc[w] = "cd_remote" /\ generate_chapter_draft_reply(w, [kind |-> "raise"])
             \/ pc[w] = "gn_remote" /\ generate_chapters_reply(w, [kind |-> "raise"]))
            => /\ resp'[w].code = 500
               /\ chapters' = chapters
       /\ \A c \in chapters' : c.draft_text \in {NULL} \cup DraftTexts]_vars

\* C5 witness: a next-pending call failed and a chapter-scoped call failed,
\* each on a project where a drafted chapter and an undrafted one remain.
C5_Witness ==
    \E w \in Workers :
        /\ resp[w].code = 500
        /\ resp[w].op \in {"generate_chapters", "generate_chapter_draft"}
        /\ \E c \in chapters : c.draft_text = NULL
        /\ \E c \in chapters : ~Absent(c.draft_text)

AllDrafted(p) ==
    /\ ProjectChapters(p) # {}
    /\ \A c \in ProjectChapters(p) : ~Absent(c.draft_text)

AllDraftedResponse(p) ==
    Response("generate_chapters", p, 200, "All chapters already have drafts.", NULL, NoRows)

\* C7: a next-pending call on a project whose chapters all have drafts is
\* answered with 'All chapters already have drafts.', makes no remote call and
\* changes no row; the project is then still fully drafted, so that a repeated
\* call is answered the same.
C7_AllDraftedIsNoOp ==
    [][\A w \in Workers : \A p \in ProjectIds :
         (AllDrafted(p) /\ generate_chapters_start(w, p))
         => /\ resp'[w] = AllDraftedResponse(p)
            /\ pc'[w] = "idle"
            /\ calls'[w] = 0
            /\ UNCHANGED db
            /\ AllDrafted(p)']_vars

\* C7 witness: the answer was given on a project with two drafted chapters.
C7_Witness ==
    \E w \in Workers :
        /\ resp[w] = AllDraftedResponse(resp[w].id)
        /\ Cardinality(ProjectChapters(resp[w].id)) >= 2
        /\ AllDrafted(resp[w].id)

\* C8: after a next-pending call has succeeded for a chapter, the next
\* next-pending call on the project selects another chapter, whatever text
\* the remote service returned.
C8_NextCallAdvances ==
    [][\A w \in Workers :
         (/\ resp[w].op = "generate_chapters"
          /\ resp[w].code = 200
          /\ resp[w].rows # <<>>
          /\ pc[w] = "idle"
          /\ pc'[w] = "gn_remote"
          /\ loc'[w].project_id = resp[w].id)
         => loc'[w].target_chapter.id # resp[w].rows[1].id]_vars

\* no chapter of the project has an absent or empty draft
NonePending(p) == \A c \in ProjectChapters(p) : ~Absent(c.draft_text)

\* C9 as stated: on an existing project without a chapter whose draft is
\* absent or empty (a project without chapters included) a next-pending call
\* is a success that changes nothing.
C9_NonePendingIsSuccess ==
    [][\A w \in Workers : \A p \in ProjectIds :
         (ProjectRow(p) # {} /\ NonePending(p) /\ generate_chapters_start(w, p))
         => /\ resp'[w].code = 200
            /\ UNCHANGED db]_vars

\* C9 amended: on a project with a source document and at least one chapter,
\* none of them with an absent or empty draft, a next-pending call is a
\* success that changes nothing and calls no remote service; on an existing
\* project without chapters it is refused with a 400 error, and changes
\* nothing either.
C9_NonePendingAmended ==
    [][\A w \in Workers : \A p \in ProjectIds :
         (ProjectRow(p) # {} /\ NonePending(p) /\ generate_chapters_start(w, p))
         => /\ UNCHANGED db
            /\ calls'[w] = 0
            /\ pc'[w] = "idle"
            /\ (ProjectChapters(p) # {} /\ SourceRows(p) # {})
                  => resp'[w] = AllDraftedResponse(p)
            /\ ProjectChapters(p) = {} => resp'[w].code = 400]_vars

\* C9 witness: the refusal on a project that has a source document and an
\* outline, but no chapters.
C9_Witness ==
    \E w \in Workers :
        /\ resp[w] = Error("generate_chapters", resp[w].id, 400, "No chapters found for project")
        /\ SourceRows(resp[w].id) # {}
        /\ \E r \in ProjectRow(resp[w].id) : r.outline_json # NULL

\* C10: when two build-outline calls on a project have both succeeded, the
\* project's chapters are the rows inserted by the call that committed last
\* and its stored outline is that call's outline.
C10_LastBuildWins ==
    \A p \in ProjectIds :
        (\A w \in Workers : resp[w].op = "build_outline" /\ resp[w].id = p /\ resp[w].code = 200)
        => LET last == resp[last_build[p]]
           IN  /\ { c.id : c \in ProjectChapters(p) } = { r.id : r \in Range(last.rows) }
               /\ \A r \in ProjectRow(p) : r.outline_json = JsonDumps(last.outline)

-----------------------------------------------------------------------------
\* an entry of the stored outline and a chapter row carry the same order,
\* title and summary (the entry's values as build-outline reads them)
SameStub(entry, c) ==
    /\ c.chapter_order = StubOrder(entry)
    /\ c.title = StubTitle(entry)
    /\ c.summary = StubSummary(entry)

\* the entries of the list correspond one-to-one to the rows
OneToOne(entries, rows) ==
    \E f \in [DOMAIN entries -> rows] :
        /\ \A i, j \in DOMAIN entries : i # j => f[i] # f[j]
        /\ \A c \in rows : \E i \in DOMAIN entries : f[i] = c
        /\ \A i \in DOMAIN entries : SameStub(entries[i], f[i])

\* C11: in every state in which a project has a stored outline, its chapters
\* correspond one-to-one to the entries of the outline's 'chapters' list, with
\* the same order, title and summary.
C11_ChaptersMatchOutline ==
    \A p \in ProjectIds : \A r \in ProjectRow(p) :
        r.outline_json # NULL =>
            OneToOne(ChaptersOf(r.outline_json.json).v, ProjectChapters(p))

-----------------------------------------------------------------------------
\* the rows of a response are listed in ascending order
Ascending(rows) == \A i \in 1 .. Len(rows) - 1 : rows[i].chapter_order <= rows[i + 1].chapter_order

\* C12: a successful build-outline returns and persists chapters whose orders
\* are positive integers, listed in ascending order, each with a non-empty
\* title; no persisted chapter ever has an order below 1.
C12_OrdersPositiveAscending ==
    /\ \A c \in chapters : c.chapter_order >= 1 /\ c.title # <<>>
    /\ \A w \in Workers :
          (resp[w].op = "build_outline" /\ resp[w].code = 200)
          => /\ Ascending(resp[w].rows)
             /\ \A i \in DOMAIN resp[w].rows :
                   resp[w].rows[i].chapter_order >= 1 /\ resp[w].rows[i].title # <<>>

-----------------------------------------------------------------------------
\* the request of worker w ends with a not-found result (404, where a
\* validation error is a 400), no remote call made and no record changed
NotFound(w) ==
    /\ pc'[w] = "idle"
    /\ resp'[w].code = 404
    /\ calls'[w] = 0
    /\ UNCHANGED <<db, storage>>

\* C13: build-outline, chapter-scoped and next-pending draft generation and
\* transcription, when the project, chapter or stored file they name does not
\* exist, fail with a not-found result that is distinct from a validation
\* error, before any remote call and without changing any record.
C13_NotFoundBeforeRemote ==
    [][\A w \in Workers :
        /\ (\E p \in RequestProjectIds :
               /\ ProjectRow(p) = {}
               /\ build_outline_start(w, p) \/ generate_chapters_start(w, p))
           => NotFound(w)
        /\ (\E cid \in RequestChapterIds :
               ChapterRow(cid) = {} /\ generate_chapter_draft_start(w, cid))
           => NotFound(w)
        /\ (\E pa \in Paths :
               /\ Truthy(pa)
               /\ ~Exists(WithoutDot(pa.v))
               /\ transcribe_audio_start(w, [path |-> pa]))
           => NotFound(w)]_vars

-----------------------------------------------------------------------------
\* C14: a chapter's draft goes from absent to present once; no step of a
\* draft generator (chapter-scoped or next-pending) replaces the draft of a
\* chapter that has one with different text.
C14_DraftWrittenOnce ==
    [][\A w \in Workers :
        (generate_chapter_draft_remote(w, DraftReplies) \/ generate_chapters_remote(w, DraftReplies))
        => \A c \in chapters : \A d \in chapters' :
              (d.id = c.id /\ ~Absent(c.draft_text)) => d.draft_text = c.draft_text]_vars

-----------------------------------------------------------------------------
\* the chapters of project p that next-pending draft generation can select
PendingChapters(p) == { c \in ProjectChapters(p) : Pending(c) }

\* C15: when the client keeps invoking next-pending draft generation and each
\* remote call eventually succeeds, every successful generation leaves one
\* pending chapter fewer (N generations draft N chapters), and from some point
\* on every invocation reports that all chapters are drafted.
C15_EventuallyAllDrafted ==
    /\ [][\A w \in Workers : \A p \in ProjectIds :
            (generate_chapters_remote(w, SuccessReplies) /\ loc[w].project_id = p)
            => Cardinality(PendingChapters(p)') = Cardinality(PendingChapters(p)) - 1]_vars
    /\ \A p \in ProjectIds :
          <>[](/\ AllDrafted(p)
               /\ (pc[1] = "idle" /\ resp[1].op = "generate_chapters" /\ resp[1].id = p)
                  => resp[1] = AllDraftedResponse(p))

-----------------------------------------------------------------------------
\* the text of a request body is non-empty after trimming
NonBlank(tx) == StripOrEmpty(tx) # <<>>

\* the call stored exactly one source document, of project p, with the
\* trimmed text, and changed no other record
AppendedOne(w, p, tx) ==
    /\ resp'[w].code = 201
    /\ \E row \in source_documents' \ source_documents :
          /\ source_documents' = source_documents \cup {row}
          /\ row.project_id = p
          /\ row.content_text = StripOrEmpty(tx)
    /\ UNCHANGED <<book_projects, chapters>>

\* C16: add-source-text on an unknown project id fails with a not-found
\* result for every request body, also one whose text is missing or blank,
\* and stores nothing; on an existing project with non-blank text it appends
\* exactly one source document and changes no other record.
C16_UnknownProjectIsNotFound ==
    [][\A w \in Workers : \A p \in RequestProjectIds : \A tx \in RawTexts : \A now \in now_iso :
        add_text_source(w, p, [text |-> tx], now)
        => IF ProjectRow(p) = {}
           THEN resp'[w].code = 404 /\ UNCHANGED db
           ELSE NonBlank(tx) => AppendedOne(w, p, tx)]_vars

\* C16 (amended): a body whose text is missing or blank is refused with a
\* validation error (400) whatever the project id; with non-blank text an
\* unknown project id gives not-found (404); both store nothing.  On an
\* existing project non-blank text appends exactly one source document and
\* changes no other record.
C16_BlankTextIsCheckedFirst ==
    [][\A w \in Workers : \A p \in RequestProjectIds : \A tx \in RawTexts : \A now \in now_iso :
        add_text_source(w, p, [text |-> tx], now)
        => IF ~NonBlank(tx)
           THEN resp'[w].code = 400 /\ UNCHANGED db
           ELSE IF ProjectRow(p) = {}
           THEN resp'[w].code = 404 /\ UNCHANGED db
           ELSE AppendedOne(w, p, tx)]_vars

\* a source document is stored, and a call that named an unknown project
\* has been answered not-found
C16_Witness ==
    /\ source_documents # {}
    /\ resp[1].op = "add_text_source"
    /\ resp[1].code = 404
    /\ ProjectRow(resp[1].id) = {}

-----------------------------------------------------------------------------
\* the source documents of project p in the order in which they were added
\* (the order of their ids)
InOrderAdded(p) ==
    LET rows == SourceRows(p)
        n == Cardinality(rows)
    IN  CHOOSE s \in [1 .. n -> rows] : \A i \in 1 .. n - 1 : s[i].id < s[i + 1].id

\* the project whose sources the call of worker w has read
ProjectOfCall(w) ==
    IF pc[w] = "cd_remote"
    THEN (CHOOSE c \in chapters : c.id = loc[w].chapter_id).project_id
    ELSE loc[w].project_id

\* C17: the source text given to the remote service by build-outline and by
\* draft generation is the first MAX_SOURCE_CHARS characters of the project's
\* source documents joined in the order in which they were added, also when
\* two documents were added within the same second.
C17_SourceTextInOrderAdded ==
    \A w \in Workers :
        pc[w] \in {"bo_remote", "gn_remote", "cd_remote"}
        => loc[w].limited_text =
              Take(Join(ContentTexts(InOrderAdded(ProjectOfCall(w)))), MAX_SOURCE_CHARS)

-----------------------------------------------------------------------------
\* the step is a remote text-generation call of worker w that fails
FailedGeneration(w) ==
    \/ build_outline_remote(w, {[kind |-> "raise"]})
    \/ generate_chapter_draft_remote(w, {[kind |-> "raise"]})
    \/ generate_chapters_remote(w, {[kind |-> "raise"]})
    \/ chat(w, {[kind |-> "raise"]})

\* C18: a failed generation is never retried: within one requested operation
\* the remote text-generation service is invoked at most once, and a failed
\* invocation ends the operation with an error result.
C18_NoAutomaticRetry ==
    [][\A w \in Workers :
        /\ calls'[w] <= 1
        /\ FailedGeneration(w) => (pc'[w] = "idle" /\ resp'[w].code = 500)]_vars

-----------------------------------------------------------------------------
\* worker v has selected the chapter that worker w has selected, and has not
\* written yet
SameTargetPending(w, v) ==
    /\ pc[v] = "gn_remote"
    /\ loc[v].target_chapter.id = loc[w].target_chapter.id

\* worker v had selected the chapter that worker w has selected, and has
\* written its draft
SameTargetDone(w, v) ==
    /\ pc[v] = "idle"
    /\ resp[v].op = "generate_chapters"
    /\ resp[v].code = 200
    /\ resp[v].rows # NoRows
    /\ resp[v].rows[1] # NULL
    /\ resp[v].rows[1].id = loc[w].target_chapter.id

\* C19: two next-pending calls that run concurrently on a project can select
\* the same chapter.  Each one's write sets that chapter's draft to its own
\* text and changes no other chapter: the write of the second replaces the
\* text of the first, so that after both the draft is the text of the call
\* that commits last and that chapter alone has been given a draft.
C19_LastDraftWriteWins ==
    [][\A w \in Workers : \A v \in Workers \ {w} : \A r \in SuccessReplies :
        (/\ pc[w] = "gn_remote"
         /\ SameTargetPending(w, v) \/ SameTargetDone(w, v)
         /\ ChapterRow(loc[w].target_chapter.id) # {}
         /\ generate_chapters_remote(w, {r}))
        => LET cid == loc[w].target_chapter.id
           IN  /\ { c.id : c \in chapters' } = { c.id : c \in chapters }
               /\ \A c \in chapters : \A d \in chapters' :
                     d.id = c.id =>
                        d = IF c.id = cid THEN [c EXCEPT !.draft_text = r.content] ELSE c]_vars

\* after one build-outline, two next-pending calls have written the same
\* chapter with different texts (the second had selected it before the first
\* wrote its non-empty text), and the chapter holds the text written last
C19_Witness ==
    \E w \in Workers : \E v \in Workers \ {w} : \E c \in chapters :
        /\ budget = MaxConcRequests - 3
        /\ pc[w] = "idle" /\ pc[v] = "idle"
        /\ resp[w].op = "generate_chapters" /\ resp[w].code = 200 /\ resp[w].rows # NoRows
        /\ resp[v].op = "generate_chapters" /\ resp[v].code = 200 /\ resp[v].rows # NoRows
        /\ resp[w].rows[1] # NULL /\ resp[v].rows[1] # NULL
        /\ ~Absent(resp[v].rows[1].draft_text)
        /\ resp[w].rows[1].id = c.id /\ resp[v].rows[1].id = c.id
        /\ resp[w].rows[1].draft_text # resp[v].rows[1].draft_text
        /\ c = resp[w].rows[1]

-----------------------------------------------------------------------------
\* C20: when build-outline fails after its DELETE (a stub whose order is no
\* integer, a stub that is no object), all its writes are rolled back: the
\* old chapters with their drafts and the old stored outline are still
\* there, and none of the new stubs is persisted.
C20_FailedInsertRollsBack ==
    [][\A w \in Workers :
        (/\ pc[w] = "bo_insert"
         /\ \E i \in DOMAIN ChaptersOf(loc[w].outline_data).v :
               StubRaises(ChaptersOf(loc[w].outline_data).v[i])
         /\ build_outline_finish(w))
        => /\ resp'[w].op = "build_outline"
           /\ resp'[w].code = 500
           /\ chapters' = chapters
           /\ book_projects' = book_projects]_vars

\* a build-outline call has failed in its loop over the stubs, after its
\* DELETE and after an INSERT (a value of the id sequence was used up), on a
\* project that keeps a drafted chapter and its stored outline
C20_Witness ==
    \E w \in Workers :
        /\ resp[w].op = "build_outline"
        /\ resp[w].msg = "build-outline failed: stub"
        /\ \E c \in ProjectChapters(resp[w].id) : ~Absent(c.draft_text)
        /\ \E r \in ProjectRow(resp[w].id) : r.outline_json # NULL
        /\ \A c \in chapters : c.id < id_seq.chapters

-----------------------------------------------------------------------------
\* the models in the order in which GPTService.chat is to try them
ModelsInOrder == <<PRIMARY_MODEL>> \o FALLBACK_MODELS

\* C21: GPTService.chat tries the primary model, then each fallback, in that
\* order.  The first call that does not raise ends it: the result carries
\* that model as model_used and the content (None when it cannot be read),
\* and no further model is called.  It fails only when the call has raised
\* for every model of the list.
C21_FirstAnswerEndsChat ==
    [][\A w \in Workers : \A r \in ChatReplies :
        (pc[w] = "chat" /\ chat(w, {r}))
        => /\ calls[w] < Len(ModelsInOrder)
           /\ calls'[w] = calls[w] + 1
           /\ Head(loc[w].models_to_try) = ModelsInOrder[calls[w] + 1]
           /\ IF r.kind = "ok"
              THEN /\ pc'[w] = "idle"
                   /\ resp'[w].code = 200
                   /\ resp'[w].model_used = ModelsInOrder[calls[w] + 1]
                   /\ resp'[w].content = IF r.content = Unreadable THEN NULL ELSE r.content
              ELSE IF calls[w] + 1 < Len(ModelsInOrder)
              THEN pc'[w] = "chat" /\ resp'[w] = NoResp
              ELSE pc'[w] = "idle" /\ resp'[w].code = 500]_vars

\* the calls to the primary model and to the first fallback have raised, and
\* the last model has answered with a content that cannot be read
C21_Witness ==
    \E w \in Workers :
        /\ pc[w] = "idle"
        /\ resp[w].op \in {"generate_outline_route", "generate_chapter_route"}
        /\ resp[w].code = 200
        /\ calls[w] = Len(ModelsInOrder)
        /\ resp[w].model_used = ModelsInOrder[Len(ModelsInOrder)]
        /\ resp[w].content = NULL

-----------------------------------------------------------------------------
\* after the step the chapter cid exists and its draft is the text
StoredAfter(cid, text) == \E c \in chapters' : c.id = cid /\ c.draft_text = text

\* C22: whenever a chapter-scoped or next-pending draft generation call
\* reports success, the generated text is stored as the draft of a chapter
\* that still exists, and next-pending returns that chapter's record; also
\* when a build-outline of the project has committed between the call's read
\* of the chapter and its write.
C22_SuccessMeansStored ==
    [][\A w \in Workers : \A r \in SuccessReplies :
        /\ (pc[w] = "cd_remote" /\ generate_chapter_draft_remote(w, {r}))
           => (resp'[w].code = 200 => StoredAfter(loc[w].chapter_id, r.content))
        /\ (pc[w] = "gn_remote" /\ generate_chapters_remote(w, {r}))
           => (resp'[w].code = 200
               => /\ StoredAfter(loc[w].target_chapter.id, r.content)
                  /\ resp'[w].rows[1] # NULL)]_vars

-----------------------------------------------------------------------------
\* project p has a stored outline and at least one source document
HasOutlineAndSources(p) ==
    /\ \E r \in ProjectRow(p) : r.outline_json # NULL
    /\ SourceRows(p) # {}

\* C23: in every state, a project that has a chapter has a stored outline
\* and a source document; so next-pending draft generation never refuses a
\* project that has chapters for lacking source documents.
C23_ChaptersImplyOutlineAndSources ==
    /\ [](\A c \in chapters : HasOutlineAndSources(c.project_id))
    /\ [][\A w \in Workers : \A p \in RequestProjectIds :
            (/\ generate_chapters_start(w, p)
             /\ resp'[w].msg = "No source documents found for project")
            => ProjectChapters(p) = {}]_vars

\* a next-pending call has been served on a project with chapters, which
\* has a stored outline and a source document
C23_Witness ==
    /\ chapters # {}
    /\ \A c \in chapters : HasOutlineAndSources(c.project_id)
    /\ resp[1].op = "generate_chapters"
    /\ resp[1].code = 200
    /\ resp[1].rows # NoRows

-----------------------------------------------------------------------------
\* the text is non-empty and has no leading or trailing whitespace
Trimmed(text) == text # <<>> /\ Strip(text) = text

\* the truncated source texts that the handlers can compute for project p:
\* build-outline and generate-chapters strip the joined text, generate-draft
\* joins the non-empty texts
SourceTextsComputed(p) ==
    { LimitedText(source_rows) : source_rows \in SourceOrders(p) }
    \cup { LimitedTextOfNonEmpty(source_rows) : source_rows \in SourceOrders(p) }

\* C24: every stored source document has a text that is non-empty and has no
\* leading or trailing whitespace; so, for the same state of a project,
\* build-outline, chapter-scoped and next-pending draft generation all
\* compute the same truncated source text.
C24_SameSourceTextEverywhere ==
    /\ \A s \in source_documents : Trimmed(s.content_text)
    /\ \A p \in ProjectIds : Cardinality(SourceTextsComputed(p)) = 1

====
